---------------------------- MODULE Spec2Model ----------------------------
(***************************************************************************)
(* A model of the chapter discovery and incremental-download engine of    *)
(* scraping-novel: the chapter store (file names, latest chapter, save),   *)
(* the GUI run (start_scraping / stop_scraping / run_scraper threads),     *)
(* content extraction, the chapter check,                                  *)
(* the nested-volume discovery and the infinite-scroll discovery.          *)
(*                                                                         *)
(* Strings are sequences of one-character strings, so that formatting a    *)
(* chapter number into a file name and parsing it back are computed.       *)
(***************************************************************************)
EXTENDS Integers, Sequences, FiniteSets, TLC

VARIABLES
    \* the series directory (chapter store)
    dirExists,      \* os.path.exists(output_dir)
    dirLen,         \* len(output_dir)
    files,          \* file name -> what was written to it
    latest,         \* value returned by the last get_latest_chapter, NoneInt if stale
    saveRet,        \* value returned by the last save: "none", "True", "False"
    nsaves,         \* number of saves done (bounded by MaxSaves)
    save_call       \* arguments and write outcomes of the last recorded save, NoCall if none

VARIABLES
    \* the desktop application (ApplicationWindow)
    scraping,       \* self.scraping
    siteType,       \* the "type" of the selected novel
    nthreads,       \* number of run_scraper threads started so far
    workers         \* thread -> its position and locals in run_scraper

VARIABLES
    \* chapter check and chapter discovery
    check,          \* position and locals of _check_chapters_thread
    chapter_entry,  \* the chapter count shown in the entry field, NoneInt if untouched
    kat,            \* a nested-volume page and the discovery working on it
    scroll          \* an infinite-scroll page and the discovery working on it

VARIABLES
    \* the download loops that count consecutive failures
    loop            \* position and locals of a scrape_chapters / scrape_novelbin_multiple call

storeVars == <<dirExists, dirLen, files, latest, saveRet, nsaves, save_call>>

guiVars == <<scraping, siteType, nthreads, workers>>

checkVars == <<check, chapter_entry>>

\* the loops over chapter numbers and over scans of a chapter list
loopVars == <<loop>>

discVars == <<checkVars, kat, scroll, loopVars>>

vars == <<storeVars, guiVars, discVars>>

(***************************************************************************)
(* Bounds of the model                                                     *)
(***************************************************************************)
StoreMaxChapter == 1
MaxSaves == 2
GuiMaxRuns == 2
GuiMaxCount == 2
RunMaxCount == 3
CheckMaxLocal == 2
CheckMaxAvailable == 3
KatMaxVolume == 2
ScrollMaxChapter == 1
ScrollMaxSteps == 2

\* Python's None where an int is expected
NoneInt == -1

\* no save has been recorded
NoCall == [variant |-> "none"]

(***************************************************************************)
(* Characters, numbers and file names                                      *)
(***************************************************************************)
DigitChars == <<"0", "1", "2", "3", "4", "5", "6", "7", "8", "9">>

IsDigit(c) == \E d \in 1..10 : DigitChars[d] = c

DigitVal(c) == (CHOOSE d \in 1..10 : DigitChars[d] = c) - 1

\* str(n) for n >= 0
RECURSIVE DecStr(_)
DecStr(n) == IF n < 10 THEN <<DigitChars[n + 1]>>
             ELSE DecStr(n \div 10) \o <<DigitChars[(n % 10) + 1]>>

\* f"{n:03d}": decimal digits, left-padded with zeros to width 3
Fmt03d(n) == LET s == DecStr(n)
             IN  IF Len(s) >= 3 THEN s
                 ELSE IF Len(s) = 2 THEN <<"0">> \o s
                 ELSE <<"0", "0">> \o s

\* int(s) for a non-empty sequence of digits
RECURSIVE ParseInt(_)
ParseInt(s) == IF Len(s) = 0 THEN 0
               ELSE 10 * ParseInt(SubSeq(s, 1, Len(s) - 1)) + DigitVal(s[Len(s)])

\* length of the longest prefix of s made of digits
RECURSIVE DigitRun(_)
DigitRun(s) == IF Len(s) = 0 \/ ~IsDigit(s[1]) THEN 0
               ELSE 1 + DigitRun(Tail(s))

\* re.match(r'^(\d+)_', name): the number matched, or None
MatchPrefix(name) ==
    LET k == DigitRun(name)
    IN  IF k >= 1 /\ Len(name) > k /\ name[k + 1] = "_"
        THEN ParseInt(SubSeq(name, 1, k))
        ELSE NoneInt

TxtExt == <<".", "t", "x", "t">>

\* name.endswith('.txt') / glob "*.txt"
EndsWithTxt(name) ==
    /\ Len(name) >= Len(TxtExt)
    /\ SubSeq(name, Len(name) - Len(TxtExt) + 1, Len(name)) = TxtExt

SetMax(S) == CHOOSE x \in S : \A y \in S : y <= x

SetMin(S) == CHOOSE x \in S : \A y \in S : x <= y

(***************************************************************************)
(* Chapter check and discovery at rest                                     *)
(***************************************************************************)
IdleCheck ==
    [pc |-> "idle", latest_downloaded |-> NoneInt, min_available |-> NoneInt,
     max_available |-> NoneInt, remaining_chapters |-> NoneInt,
     next_chapter |-> NoneInt, outcome |-> "none", cause |-> "none"]

IdleKat ==
    [pc |-> "idle", variant |-> "none", volumes |-> {}, marker |-> NoneInt,
     chaptersOf |-> <<>>, expanded |-> {}, clicked |-> {}, queue |-> <<>>,
     latest_volume_from_new_chapter |-> NoneInt, all_chapters |-> <<>>,
     available_chapters |-> {}, result |-> <<>>,
     failed |-> {}]

IdleScroll ==
    [pc |-> "idle", variant |-> "none", fixture |-> <<>>, scans |-> 0, found |-> {},
     stable_iterations |-> 0, iteration |-> 0, reason |-> "none", result |-> <<>>,
     target |-> NoneInt, last_count |-> 0,
     pattern |-> 0, chapter_0_or_1_found |-> FALSE, returned |-> "none"]

IdleLoop ==
    [pc |-> "idle", variant |-> "none", start |-> 0, end |-> 0, chapters_per_run |-> 0,
     current_chapter |-> 0, downloaded |-> 0, consecutive_failures |-> 0,
     last |-> "none", announced_now |-> FALSE, announced |-> <<>>, reason |-> "none",
     attempted |-> 0]

DiscIdle ==
    /\ check = IdleCheck
    /\ chapter_entry = NoneInt
    /\ kat = IdleKat
    /\ scroll = IdleScroll
    /\ loop = IdleLoop

(***************************************************************************)
(* Chapter store                                                           *)
(***************************************************************************)
\* the numeric prefixes of the *.txt files of a directory listing
ChapterNums(names) ==
    {MatchPrefix(f) : f \in {g \in names : EndsWithTxt(g) /\ MatchPrefix(g) # NoneInt}}

\* get_latest_chapter / _get_latest_chapter
get_latest_chapter_min(exists, names) ==
    IF ~exists THEN 0
    ELSE IF ChapterNums(names) = {} THEN 0
    ELSE SetMin(ChapterNums(names))

get_latest_chapter(exists, names) ==
    IF ~exists THEN 0
    ELSE IF ChapterNums(names) = {} THEN 0
    ELSE SetMax(ChapterNums(names))

IllegalChars == {"<", ">", ":", "\"", "/", "\\", "|", "?", "*", "#"}

max_title_length == 80

Ellipsis == <<".", ".", ".">>

\* re.sub(r'[<>:"/\\|?*#]', '', s)
RECURSIVE StripIllegal(_)
StripIllegal(s) == IF Len(s) = 0 THEN <<>>
                   ELSE IF s[1] \in IllegalChars THEN StripIllegal(Tail(s))
                   ELSE <<s[1]>> \o StripIllegal(Tail(s))

\* re.sub(r'\s+', ' ', s)
RECURSIVE CollapseSpaces(_)
CollapseSpaces(s) ==
    IF Len(s) = 0 THEN <<>>
    ELSE IF s[1] = " " /\ Len(s) > 1 /\ s[2] = " " THEN CollapseSpaces(Tail(s))
    ELSE <<s[1]>> \o CollapseSpaces(Tail(s))

\* str.strip() for the space character
RECURSIVE LStrip(_)
LStrip(s) == IF Len(s) > 0 /\ s[1] = " " THEN LStrip(Tail(s)) ELSE s

RECURSIVE RStrip(_)
RStrip(s) == IF Len(s) > 0 /\ s[Len(s)] = " " THEN RStrip(SubSeq(s, 1, Len(s) - 1)) ELSE s

Strip(s) == RStrip(LStrip(s))

Truncate(s) == IF Len(s) > max_title_length
               THEN SubSeq(s, 1, max_title_length) \o Ellipsis
               ELSE s

\* NovelBinScraper._sanitize_filename / KatReadingCafeScraper._sanitize_filename
sanitize_filename(title) == Truncate(Strip(CollapseSpaces(StripIllegal(title))))

ChapterWord == <<"C", "h", "a", "p", "t", "e", "r">>

\* f"{chapter_num:03d}_{safe_title}.txt"
PrimaryName(safe_title, n) == Fmt03d(n) \o <<"_">> \o safe_title \o TxtExt

\* f"{chapter_num:03d}_Chapter_{chapter_num}.txt"
FallbackName(n) == Fmt03d(n) \o <<"_">> \o ChapterWord \o <<"_">> \o DecStr(n) \o TxtExt

\* f"Chapter {chapter_num}"
DefaultTitle(n) == ChapterWord \o <<" ">> \o DecStr(n)

(***************************************************************************)
(* Writing a chapter file                                                  *)
(***************************************************************************)
EmptyDir == [x \in {} |-> 0]

\* what open(filename, "w") followed by f.write(...) can do
WriteOutcomes == {"ok", "open_fails", "write_fails"}

ShortDirLen == 20
LongDirLen == 200
max_path_length == 240

FileText(title, body) == [title |-> title, body |-> body, complete |-> TRUE]

TruncatedText == [title |-> <<>>, body |-> 0, complete |-> FALSE]

PutFile(fs, name, text) ==
    [x \in (DOMAIN fs) \cup {name} |-> IF x = name THEN text ELSE fs[x]]

\* with open(filename, "w") as f: f.write(title + "\n\n" + content)
WriteFile(fs, exists, name, text, outcome) ==
    IF ~exists \/ outcome = "open_fails" THEN fs
    ELSE IF outcome = "write_fails" THEN PutFile(fs, name, TruncatedText)
    ELSE PutFile(fs, name, text)

\* the outcomes of the primary write and, when it is attempted, of the fallback write
WritePairs ==
    { <<"ok", "ok">>, <<"open_fails", "ok">>, <<"open_fails", "open_fails">>,
      <<"write_fails", "ok">>, <<"write_fails", "write_fails">> }

Written(exists, outcome) == exists /\ outcome = "ok"

\* a save that gives up after the primary write, without the except OSError branch
WriteWithoutFallback(fs, exists, primary, fallback, text, o1, o2) ==
    [files |-> WriteFile(fs, exists, primary, text, o1), ok |-> Written(exists, o1)]

\* try: write primary; except OSError: try: write fallback; except: return False
WriteWithFallback(fs, exists, primary, fallback, text, o1, o2) ==
    IF Written(exists, o1)
    THEN [files |-> WriteFile(fs, exists, primary, text, o1), ok |-> TRUE]
    ELSE LET fs1 == WriteFile(fs, exists, primary, text, o1)
         IN  [files |-> WriteFile(fs1, exists, fallback, text, o2),
              ok |-> Written(exists, o2)]

\* save_chapter (scrape_novel.py): no strip, path-length check
save_chapter_name(title, n, dlen) ==
    LET safe_title == Truncate(CollapseSpaces(StripIllegal(title)))
        filename == PrimaryName(safe_title, n)
    IN  IF dlen + 1 + Len(filename) > max_path_length THEN FallbackName(n) ELSE filename

save_chapter(fs, exists, dlen, title, body, n, o1, o2) ==
    WriteWithFallback(fs, exists, save_chapter_name(title, n, dlen), FallbackName(n),
                      FileText(title, body), o1, o2)

\* KatReadingCafeScraper._save_chapter
Kat_save_chapter(fs, exists, title, body, n, o1, o2) ==
    WriteWithFallback(fs, exists, PrimaryName(sanitize_filename(title), n), FallbackName(n),
                      FileText(title, body), o1, o2)

\* NovelBinScraper._save_chapter: an empty title becomes "Chapter n"
NovelBin_title(title, n) == IF title = <<>> THEN DefaultTitle(n) ELSE title

NovelBin_save_chapter(fs, exists, title, body, n, o1, o2) ==
    WriteWithFallback(fs, exists, PrimaryName(sanitize_filename(NovelBin_title(title, n)), n),
                      FallbackName(n), FileText(NovelBin_title(title, n), body), o1, o2)

(***************************************************************************)
(* Content extraction.  A rendered chapter page is a record: its title, the *)
(* stripped text length found under each content selector (NoneInt when the*)
(* selector matches no element), the stripped text lengths of its <p>      *)
(* elements, and the stripped text length of <main> (NoneInt when absent). *)
(***************************************************************************)
min_content_length == 100
min_paragraph_length == 50

\* str.lower() on the letters used in page titles
LowerChar(c) == IF c = "N" THEN "n" ELSE IF c = "F" THEN "f" ELSE c

Lower(s) == [k \in 1..Len(s) |-> LowerChar(s[k])]

\* sub in s
Contains(s, sub) ==
    \E k \in 1..(Len(s) - Len(sub) + 1) : SubSeq(s, k, k + Len(sub) - 1) = sub

Str404 == <<"4", "0", "4">>
StrNotFound == <<"n", "o", "t", " ", "f", "o", "u", "n", "d">>

\* not title or "404" in title or "not found" in title.lower()
TitleInvalid(title) ==
    \/ title = <<>>
    \/ Contains(title, Str404)
    \/ Contains(Lower(title), StrNotFound)

NoContent == [ok |-> FALSE, title |-> <<>>, body |-> 0]

Content(title, body) == [ok |-> TRUE, title |-> title, body |-> body]

\* index of the first selector whose element exists with more than min chars, 0 if none
FirstLongSelector(sels) ==
    IF \E k \in 1..Len(sels) : sels[k] # NoneInt /\ sels[k] > min_content_length
    THEN CHOOSE k \in 1..Len(sels) :
            /\ sels[k] # NoneInt /\ sels[k] > min_content_length
            /\ \A j \in 1..(k - 1) : ~(sels[j] # NoneInt /\ sels[j] > min_content_length)
    ELSE 0

\* [p.text.strip() for p in all_paragraphs if len(p.text.strip()) > 50]
RECURSIVE LongParagraphs(_)
LongParagraphs(ps) ==
    IF Len(ps) = 0 THEN <<>>
    ELSE IF ps[1] > min_paragraph_length THEN <<ps[1]>> \o LongParagraphs(Tail(ps))
    ELSE LongParagraphs(Tail(ps))

\* len("\n\n".join(texts))
RECURSIVE JoinedLen(_)
JoinedLen(ts) == IF Len(ts) = 0 THEN 0
                 ELSE IF Len(ts) = 1 THEN ts[1]
                 ELSE ts[1] + 2 + JoinedLen(Tail(ts))

\* NovelBinScraper._fallback_content_extraction
fallback_content_extraction(page) ==
    IF LongParagraphs(page.paragraphs) # <<>>
    THEN Content(Strip(page.title), JoinedLen(LongParagraphs(page.paragraphs)))
    ELSE IF page.main # NoneInt /\ page.main > min_content_length
    THEN Content(Strip(page.title), page.main)
    ELSE NoContent

\* NovelBinScraper._get_chapter_content
NovelBin_get_chapter_content(page) ==
    IF TitleInvalid(Strip(page.title)) THEN NoContent
    ELSE IF FirstLongSelector(page.selectors) # 0
    THEN Content(Strip(page.title), page.selectors[FirstLongSelector(page.selectors)])
    ELSE fallback_content_extraction(page)

\* KatReadingCafeScraper._get_chapter_content: first selector with non-empty text
Kat_get_chapter_content(page) ==
    IF \E k \in 1..Len(page.selectors) : page.selectors[k] # NoneInt /\ page.selectors[k] > 0
    THEN LET k == CHOOSE k \in 1..Len(page.selectors) :
                     /\ page.selectors[k] # NoneInt /\ page.selectors[k] > 0
                     /\ \A j \in 1..(k - 1) : ~(page.selectors[j] # NoneInt /\ page.selectors[j] > 0)
         IN  Content(Strip(page.title), page.selectors[k])
    ELSE NoContent

\* the text kept by the selector loop of scrape_novelbin_single_with_fresh_browser:
\* the first text longer than min (break), else the text of the last element found
RECURSIVE LastFound(_)
LastFound(sels) == IF Len(sels) = 0 THEN 0
                   ELSE IF sels[Len(sels)] # NoneInt THEN sels[Len(sels)]
                   ELSE LastFound(SubSeq(sels, 1, Len(sels) - 1))

\* content extraction of scrape_novelbin_single_with_fresh_browser
cli_get_chapter_content(page) ==
    IF TitleInvalid(Strip(page.title)) THEN NoContent
    ELSE LET c0 == IF FirstLongSelector(page.selectors) # 0
                   THEN page.selectors[FirstLongSelector(page.selectors)]
                   ELSE LastFound(page.selectors)
             c1 == IF c0 < min_content_length /\ LongParagraphs(page.paragraphs) # <<>>
                   THEN JoinedLen(LongParagraphs(page.paragraphs))
                   ELSE c0
             c2 == IF c0 < min_content_length /\ c1 < min_content_length /\ page.main # NoneInt
                   THEN page.main
                   ELSE c1
         IN  IF c2 < min_content_length THEN NoContent
             ELSE Content(Strip(page.title), c2)

NovelBinSelectorCount == 12
KatSelectorCount == 5

\* a page whose k-th selector holds a text of length len, the others matching nothing
SelectorsWith(count, k, len) == [j \in 1..count |-> IF j = k THEN len ELSE NoneInt]

NoSelectors(count) == [j \in 1..count |-> NoneInt]

Page(title, sels, ps, main) ==
    [title |-> title, selectors |-> sels, paragraphs |-> ps, main |-> main]

GoodTitle == <<"a">>

\* rendered chapter pages the site may answer with (count = number of selectors probed)
Pages(count) ==
    { Page(GoodTitle, SelectorsWith(count, 1, 150), <<>>, NoneInt),
      Page(GoodTitle, SelectorsWith(count, 2, 101), <<60>>, NoneInt),
      Page(GoodTitle, SelectorsWith(count, count, 100), <<>>, NoneInt),
      Page(GoodTitle, SelectorsWith(count, 1, 40), <<>>, NoneInt),
      Page(GoodTitle, NoSelectors(count), <<60>>, NoneInt),
      Page(GoodTitle, NoSelectors(count), <<51, 20, 51>>, 30),
      Page(GoodTitle, NoSelectors(count), <<50>>, 99),
      Page(GoodTitle, NoSelectors(count), <<>>, 101),
      Page(GoodTitle, NoSelectors(count), <<>>, NoneInt),
      Page(<<"N", "o", "t", " ", "F", "o", "u", "n", "d">>, SelectorsWith(count, 1, 150), <<>>, NoneInt),
      Page(Str404, SelectorsWith(count, 1, 150), <<>>, NoneInt),
      Page(<<>>, SelectorsWith(count, 1, 150), <<>>, NoneInt) }

(***************************************************************************)
(* The chapter store on its own: any sequence of saves and scans           *)
(***************************************************************************)
RECURSIVE Rep(_, _)
Rep(c, k) == IF k = 0 THEN <<>> ELSE <<c>> \o Rep(c, k - 1)

\* page titles offered to save
StoreTitles ==
    { <<"a">>, <<" ", "a", ":">>, <<>> }

StoreBodies == {150}

StoreChapters == 0..StoreMaxChapter

StoreInit ==
    /\ dirExists \in BOOLEAN
    /\ dirLen \in {ShortDirLen, LongDirLen}
    /\ files = EmptyDir
    /\ latest = NoneInt
    /\ saveRet = "none"
    /\ nsaves = 0
    /\ save_call = NoCall
    /\ scraping = FALSE
    /\ siteType = "novelbin"
    /\ nthreads = 0
    /\ workers = <<>>
    /\ DiscIdle

\* os.makedirs(output_dir, exist_ok=True)
MakeDirs ==
    /\ ~dirExists
    /\ dirExists' = TRUE
    /\ latest' = NoneInt
    /\ UNCHANGED <<dirLen, files, saveRet, nsaves, save_call, guiVars, discVars>>

StoreSaved(r) ==
    /\ nsaves < MaxSaves
    /\ files' = r.files
    /\ saveRet' = IF r.ok THEN "True" ELSE "False"
    /\ nsaves' = nsaves + 1
    /\ latest' = NoneInt
    /\ UNCHANGED <<dirExists, dirLen, save_call, guiVars, discVars>>

StoreSaveCli ==
    \E t \in StoreTitles, b \in StoreBodies, n \in StoreChapters, o \in WritePairs :
        StoreSaved(save_chapter(files, dirExists, dirLen, t, b, n, o[1], o[2]))

StoreSaveKat ==
    \E t \in StoreTitles, b \in StoreBodies, n \in StoreChapters, o \in WritePairs :
        StoreSaved(Kat_save_chapter(files, dirExists, t, b, n, o[1], o[2]))

StoreSaveNovelBin ==
    \E t \in StoreTitles, b \in StoreBodies, n \in StoreChapters, o \in WritePairs :
        StoreSaved(NovelBin_save_chapter(files, dirExists, t, b, n, o[1], o[2]))

\* latest = get_latest_chapter(output_dir)
StoreScan ==
    /\ latest = NoneInt
    /\ latest' = get_latest_chapter(dirExists, DOMAIN files)
    /\ UNCHANGED <<dirExists, dirLen, files, saveRet, nsaves, save_call, guiVars, discVars>>

StoreNext == MakeDirs \/ StoreSaveCli \/ StoreSaveKat \/ StoreSaveNovelBin \/ StoreScan

SpecStore == StoreInit /\ [][StoreNext]_vars

(***************************************************************************)
(* Single saves, with the arguments and the write outcomes kept            *)
(***************************************************************************)
SaveMaxCalls == 1

\* a series directory in which the fallback name of chapter 0 is already taken
OldFallback == PutFile(EmptyDir, FallbackName(0), FileText(<<"o">>, 120))

SaveInit ==
    /\ dirExists \in BOOLEAN
    /\ dirLen \in {ShortDirLen, LongDirLen}
    /\ files \in {EmptyDir} \cup (IF dirExists THEN {OldFallback} ELSE {})
    /\ latest = NoneInt
    /\ saveRet = "none"
    /\ nsaves = 0
    /\ save_call = NoCall
    /\ scraping = FALSE
    /\ siteType = "novelbin"
    /\ nthreads = 0
    /\ workers = <<>>
    /\ DiscIdle

SaveCalled(variant, primary, t, b, n, o, r) ==
    /\ nsaves < SaveMaxCalls
    /\ files' = r.files
    /\ saveRet' = IF r.ok THEN "True" ELSE "False"
    /\ nsaves' = nsaves + 1
    /\ save_call' = [variant |-> variant, chapter_num |-> n, primary |-> primary,
                     title |-> t, body |-> b, o1 |-> o[1], o2 |-> o[2], before |-> files]
    /\ UNCHANGED <<dirExists, dirLen, latest, guiVars, discVars>>

SaveCallCli ==
    \E t \in StoreTitles, b \in StoreBodies, n \in StoreChapters, o \in WritePairs :
        SaveCalled("cli", save_chapter_name(t, n, dirLen), t, b, n, o,
                   save_chapter(files, dirExists, dirLen, t, b, n, o[1], o[2]))

SaveCallKat ==
    \E t \in StoreTitles, b \in StoreBodies, n \in StoreChapters, o \in WritePairs :
        SaveCalled("kat", PrimaryName(sanitize_filename(t), n), t, b, n, o,
                   Kat_save_chapter(files, dirExists, t, b, n, o[1], o[2]))

SaveCallNovelBin ==
    \E t \in StoreTitles, b \in StoreBodies, n \in StoreChapters, o \in WritePairs :
        SaveCalled("novelbin", PrimaryName(sanitize_filename(NovelBin_title(t, n)), n),
                   NovelBin_title(t, n), b, n, o,
                   NovelBin_save_chapter(files, dirExists, t, b, n, o[1], o[2]))

SaveNext == SaveCallCli \/ SaveCallKat \/ SaveCallNovelBin

SpecSave == SaveInit /\ [][SaveNext]_vars

(***************************************************************************)
(* One chapter download                                                    *)
(***************************************************************************)
\* a failure that takes the archive with it
FailedClears(fs) == [files |-> EmptyDir, ok |-> FALSE]

\* "return False" / "return 0" before the save: the directory is as it was
Failed(fs) == [files |-> fs, ok |-> FALSE]

\* what resolving the chapter's URL can do: found, not in the list, or an exception
NavOutcomes == {"found", "not_found", "exception"}

\* NovelBinScraper._download_single_chapter; drv: create_driver() returned a driver
NovelBin_download_single_chapter(fs, exists, drv, nav, page, n, o1, o2) ==
    IF ~drv THEN Failed(fs)
    ELSE IF nav # "found" THEN Failed(fs)
    ELSE LET c == NovelBin_get_chapter_content(page)
         IN  IF ~c.ok \/ c.body = 0 THEN Failed(fs)
             ELSE NovelBin_save_chapter(fs, exists, c.title, c.body, n, o1, o2)

\* KatReadingCafeScraper.scrape_chapters(url, n, n, dir): discovery, then
\* _download_single_chapter when chapter n was discovered
Kat_scrape_one_chapter(fs, exists, drv, nav, page, n, o1, o2) ==
    IF ~drv THEN Failed(fs)
    ELSE IF nav # "found" THEN Failed(fs)
    ELSE LET c == Kat_get_chapter_content(page)
         IN  IF ~c.ok \/ c.body = 0 THEN Failed(fs)
             ELSE Kat_save_chapter(fs, exists, c.title, c.body, n, o1, o2)

(***************************************************************************)
(* The desktop application: the UI thread (Start, Stop) and the            *)
(* run_scraper threads it starts.  A thread's log is the part of the       *)
(* application log written during its lifetime.                            *)
(***************************************************************************)
Threads == DOMAIN workers

Alive(w) == w \in DOMAIN workers /\ workers[w].pc # "done"

LogEntry(ev, ch) == [ev |-> ev, ch |-> ch]

NewWorker(chapters) ==
    [pc |-> "setup", chapters |-> chapters, latest_downloaded |-> 0,
     start_chapter |-> 0, end_chapter |-> 0, i |-> 0, downloaded |-> 0,
     driver |-> FALSE, opened |-> 0, open |-> 0, no_driver_at |-> NoneInt,
     outcome |-> "none", log |-> <<>>]

\* a thread that has ended: its locals are gone
DoneWorker == [NewWorker(0) EXCEPT !.pc = "done"]

GuiInit ==
    /\ dirExists \in BOOLEAN
    /\ dirLen = ShortDirLen
    /\ files = EmptyDir
    /\ latest = NoneInt
    /\ saveRet = "none"
    /\ nsaves = 0
    /\ save_call = NoCall
    /\ scraping = FALSE
    /\ siteType \in {"novelbin", "katreadingcafe"}
    /\ nthreads = 0
    /\ workers = <<>>
    /\ DiscIdle

\* start_scraping: the Start button, with the number typed in the chapter entry
start_scraping(maxRuns, maxCount) ==
    \E chapters \in 1..maxCount :
        /\ ~scraping
        /\ nthreads < maxRuns
        /\ scraping' = TRUE
        /\ nthreads' = nthreads + 1
        /\ workers' = Append(workers, NewWorker(chapters))
        /\ UNCHANGED <<siteType, storeVars, discVars>>

\* stop_scraping: the Stop button
stop_scraping ==
    /\ scraping
    /\ scraping' = FALSE
    /\ workers' = [w \in DOMAIN workers |->
                      IF Alive(w)
                      THEN [workers[w] EXCEPT !.log = Append(@, LogEntry("stopping", NoneInt))]
                      ELSE workers[w]]
    /\ UNCHANGED <<siteType, nthreads, storeVars, discVars>>

\* a range that starts at the latest downloaded chapter itself
RunStartAtLatest(latest_downloaded) == latest_downloaded

\* start_chapter = latest_downloaded + 1
RunStart(latest_downloaded) == latest_downloaded + 1

\* end_chapter = start_chapter + chapters - 1
RunEndOffByOne(start_chapter, chapters) == start_chapter + chapters

RunEnd(start_chapter, chapters) == start_chapter + chapters - 1

\* run_scraper up to the chapter loop: makedirs, latest chapter, range
RunSetup(w) ==
    /\ Alive(w) /\ workers[w].pc = "setup"
    /\ \/ /\ dirExists' = TRUE
          /\ LET l == get_latest_chapter(TRUE, DOMAIN files)
                 st == RunStart(l)
             IN  workers' = [workers EXCEPT ![w] =
                     [@ EXCEPT !.pc = "loop", !.latest_downloaded = l,
                               !.start_chapter = st,
                               !.end_chapter = RunEnd(st, workers[w].chapters),
                               !.i = st, !.downloaded = 0]]
       \/ \* os.makedirs raises: except Exception
          /\ ~dirExists
          /\ workers' = [workers EXCEPT ![w] =
                     [@ EXCEPT !.pc = "finally", !.outcome = "error"]]
          /\ UNCHANGED dirExists
    /\ UNCHANGED <<dirLen, files, latest, saveRet, nsaves, save_call, scraping, siteType, nthreads, discVars>>

\* a download whose finally block does not close the page session
quit_skipped(open, driver) == open

\* finally: driver.quit(), reached when create_driver() returned a driver; the
\* number of page sessions of the run that are open afterwards
quit(open, driver) == IF driver THEN open - 1 ELSE open

\* top of "for i in range(start_chapter, end_chapter + 1)": the stop check, then
\* the chapter's download begins with driver = WebDriverManager.create_driver();
\* opened counts the page sessions the run has started, no_driver_at is the first
\* chapter for which create_driver() returned None
LoopTop(w) ==
    /\ Alive(w) /\ workers[w].pc = "loop"
    /\ IF workers[w].i > workers[w].end_chapter \/ ~scraping
       THEN workers' = [workers EXCEPT ![w] = [@ EXCEPT !.pc = "summary"]]
       ELSE \E drv \in BOOLEAN :
               workers' = [workers EXCEPT ![w] =
                   [@ EXCEPT !.pc = "fetch", !.driver = drv,
                             !.opened = IF drv THEN @ + 1 ELSE @,
                             !.open = IF drv THEN @ + 1 ELSE @,
                             !.no_driver_at = IF ~drv /\ @ = NoneInt THEN workers[w].i ELSE @,
                             !.log = Append(@, LogEntry("attempting", workers[w].i))]]
    /\ UNCHANGED <<storeVars, scraping, siteType, nthreads, discVars>>

RunDownload(fs, exists, type, drv, nav, page, n, o1, o2) ==
    IF type = "katreadingcafe"
    THEN Kat_scrape_one_chapter(fs, exists, drv, nav, page, n, o1, o2)
    ELSE NovelBin_download_single_chapter(fs, exists, drv, nav, page, n, o1, o2)

SelectorCount(type) == IF type = "katreadingcafe" THEN KatSelectorCount
                       ELSE NovelBinSelectorCount

\* a loop that gives up at the first failed chapter
after_download_abort(ok) == IF ok THEN "loop" ELSE "summary"

\* where the thread goes after "if chapter_downloaded > 0: ... else: ..." and the
\* sleep: in both branches back to the top of the for loop
after_download(ok) == "loop"

\* the chapter's download ends, the result is logged and the thread sleeps
FetchEnd(w, pages, pairs) ==
    /\ Alive(w) /\ workers[w].pc = "fetch"
    /\ \E nav \in NavOutcomes, page \in pages, o \in pairs :
          LET r == RunDownload(files, dirExists, siteType, workers[w].driver, nav, page,
                               workers[w].i, o[1], o[2])
          IN  /\ files' = r.files
              /\ workers' = [workers EXCEPT ![w] =
                    [@ EXCEPT !.pc = after_download(r.ok), !.driver = FALSE, !.i = @ + 1,
                              !.open = quit(@, workers[w].driver),
                              !.downloaded = IF r.ok THEN @ + 1 ELSE @,
                              !.log = Append(@, LogEntry(IF r.ok THEN "downloaded" ELSE "failed",
                                                         workers[w].i))]]
    /\ UNCHANGED <<dirExists, dirLen, latest, saveRet, nsaves, save_call, scraping, siteType, nthreads, discVars>>

\* a summary after which the thread is back at the top of its chapter loop
SummaryReturns(w) ==
    /\ Alive(w) /\ workers[w].pc = "summary"
    /\ workers' = [workers EXCEPT ![w] = [@ EXCEPT !.pc = "loop"]]
    /\ UNCHANGED <<storeVars, scraping, siteType, nthreads, discVars>>

\* after the loop: "if self.scraping: completed else: stopped by user"
Summary(w) ==
    /\ Alive(w) /\ workers[w].pc = "summary"
    /\ workers' = [workers EXCEPT ![w] =
          [@ EXCEPT !.pc = "finally",
                    !.outcome = IF scraping THEN "completed" ELSE "stopped"]]
    /\ UNCHANGED <<storeVars, scraping, siteType, nthreads, discVars>>

\* a finally block after which the thread goes on with its chapter loop
FinallyResumes(w) ==
    /\ Alive(w) /\ workers[w].pc = "finally"
    /\ scraping' = FALSE
    /\ workers' = [workers EXCEPT ![w] = [@ EXCEPT !.pc = "loop"]]
    /\ UNCHANGED <<storeVars, siteType, nthreads, discVars>>

\* finally: self.scraping = False
Finally(w) ==
    /\ Alive(w) /\ workers[w].pc = "finally"
    /\ scraping' = FALSE
    /\ workers' = [workers EXCEPT ![w] = DoneWorker]
    /\ UNCHANGED <<storeVars, siteType, nthreads, discVars>>

\* a step of some run_scraper thread
run_scraper(pages, pairs) ==
    \/ \E w \in Threads : RunSetup(w)
    \/ \E w \in Threads : LoopTop(w)
    \/ \E w \in Threads : FetchEnd(w, pages, pairs)
    \/ \E w \in Threads : Summary(w)
    \/ \E w \in Threads : Finally(w)

\* Start and Stop clicked at any time, any number of threads up to GuiMaxRuns;
\* the site answers with a good page or a page without content
GuiPages == { Page(GoodTitle, SelectorsWith(SelectorCount(siteType), 1, 150), <<>>, NoneInt),
              Page(GoodTitle, NoSelectors(SelectorCount(siteType)), <<>>, NoneInt) }

GuiPairs == { <<"ok", "ok">>, <<"open_fails", "open_fails">> }

GuiNext ==
    \/ start_scraping(GuiMaxRuns, GuiMaxCount)
    \/ stop_scraping
    \/ run_scraper(GuiPages, GuiPairs)

SpecGui == GuiInit /\ [][GuiNext]_vars

\* Start and Stop clicked at any time, one chapter requested per run, the site
\* always answering with a good page: the life cycle of the runs
LifeMaxRuns == 2

LifeNext ==
    \/ start_scraping(LifeMaxRuns, 1)
    \/ stop_scraping
    \/ run_scraper({Page(GoodTitle, SelectorsWith(SelectorCount(siteType), 1, 150), <<>>, NoneInt)},
                   {<<"ok", "ok">>})

SpecLife == GuiInit /\ [][LifeNext]_vars

\* the steps of one run_scraper thread
ThreadStep(w, pages, pairs) ==
    \/ RunSetup(w)
    \/ LoopTop(w)
    \/ FetchEnd(w, pages, pairs)
    \/ Summary(w)
    \/ Finally(w)

\* Start and Stop are clicked whenever the user likes; every page operation and
\* every sleep returns, and a started thread (threading.Thread(...).start()) is
\* scheduled again and again until run_scraper returns
FairNext ==
    \/ start_scraping(LifeMaxRuns, 1)
    \/ stop_scraping
    \/ \E w \in 1..LifeMaxRuns : ThreadStep(w, GuiPages, {<<"ok", "ok">>})

SpecFair ==
    /\ GuiInit
    /\ [][FairNext]_vars
    /\ \A w \in 1..LifeMaxRuns : WF_vars(ThreadStep(w, GuiPages, {<<"ok", "ok">>}))

\* One run, Stop never clicked, over an archive left by earlier runs
ArchivedFile(n) == PrimaryName(GoodTitle, n)

Archive(nums) == [f \in {ArchivedFile(n) : n \in nums} |-> FileText(GoodTitle, 150)]

InitArchives == { Archive({}), Archive({0}), Archive({1, 2}), Archive({1, 3}) }

RunPages == { Page(GoodTitle, SelectorsWith(SelectorCount(siteType), 1, 150), <<>>, NoneInt),
              Page(GoodTitle, NoSelectors(SelectorCount(siteType)), <<60>>, NoneInt),
              Page(GoodTitle, SelectorsWith(SelectorCount(siteType), 1, 40), <<>>, 99),
              Page(Str404, SelectorsWith(SelectorCount(siteType), 1, 150), <<>>, NoneInt) }

RunInit ==
    /\ files \in InitArchives
    /\ dirExists \in (IF files = EmptyDir THEN BOOLEAN ELSE {TRUE})
    /\ dirLen = ShortDirLen
    /\ latest = NoneInt
    /\ saveRet = "none"
    /\ nsaves = 0
    /\ save_call = NoCall
    /\ scraping = FALSE
    /\ siteType \in {"novelbin", "katreadingcafe"}
    /\ nthreads = 0
    /\ workers = <<>>
    /\ DiscIdle

RunNext ==
    \/ start_scraping(1, RunMaxCount)
    \/ run_scraper(RunPages, GuiPairs)

SpecRun == RunInit /\ [][RunNext]_vars

(***************************************************************************)
(* Runs one after the other: Start is clicked again once the run before    *)
(* has ended, over an archive the earlier runs have written.               *)
(***************************************************************************)
RunsMaxRuns == 2
RunsMaxCount == 2

RunsNext ==
    \/ start_scraping(RunsMaxRuns, RunsMaxCount)
    \/ run_scraper(GuiPages, GuiPairs)

SpecRuns == RunInit /\ [][RunsNext]_vars

(***************************************************************************)
(* The loops over chapter numbers, by their counters: the command-line     *)
(* loop scrape_novelbin_multiple ("cli"), NovelBinScraper.scrape_chapters  *)
(* ("scraper") and the chapter loop of run_scraper ("gui").  The download  *)
(* of an iteration succeeds or fails.                                      *)
(***************************************************************************)
LoopMaxChapters == 21

\* VOICE_ENABLED = True
VOICE_ENABLED == TRUE

max_consecutive_failures == 2

scraper_max_consecutive_failures == 3

progress_interval == 10

LoopVariants == {"cli", "scraper", "gui"}

\* a loop that announces after every download
progress_always(variant, downloaded) == TRUE

\* "if downloaded % 10 == 0" in the success branch; the command-line loop has
\* "if VOICE_ENABLED and downloaded % 10 == 0 and downloaded > 0"
progress_due(variant, downloaded) ==
    IF variant = "cli"
    THEN VOICE_ENABLED /\ downloaded % progress_interval = 0 /\ downloaded > 0
    ELSE downloaded % progress_interval = 0

LoopInit ==
    /\ dirExists = TRUE
    /\ dirLen = ShortDirLen
    /\ files = EmptyDir
    /\ latest = NoneInt
    /\ saveRet = "none"
    /\ nsaves = 0
    /\ save_call = NoCall
    /\ scraping = FALSE
    /\ siteType = "novelbin"
    /\ nthreads = 0
    /\ workers = <<>>
    /\ DiscIdle

\* the call: start = latest + 1, end = start + chapters - 1
LoopStart(variant) ==
    /\ loop.pc = "idle"
    /\ \E chapters \in 1..LoopMaxChapters, latest_downloaded \in {0, 3} :
          loop' = [IdleLoop EXCEPT !.pc = "top", !.variant = variant,
                                   !.start = RunStart(latest_downloaded),
                                   !.end = RunEnd(RunStart(latest_downloaded), chapters),
                                   !.chapters_per_run = chapters,
                                   !.current_chapter = RunStart(latest_downloaded)]
    /\ UNCHANGED <<storeVars, guiVars, checkVars, kat, scroll>>

\* a loop condition that looks at the range only
LoopGoesOnToTheEnd == loop.current_chapter <= loop.end

\* the loop condition: "for i in range(chapters_per_run): if current_chapter > end:
\* break" (cli), "while current_chapter <= end and consecutive_failures <
\* max_consecutive_failures" (scraper), "for i in range(start_chapter, end_chapter + 1)" (gui)
LoopGoesOn ==
    CASE loop.variant = "cli" ->
            /\ loop.current_chapter - loop.start < loop.chapters_per_run
            /\ loop.current_chapter <= loop.end
      [] loop.variant = "scraper" ->
            /\ loop.current_chapter <= loop.end
            /\ loop.consecutive_failures < scraper_max_consecutive_failures
      [] OTHER -> loop.current_chapter <= loop.end

\* one iteration: the download of current_chapter, the counters, the progress
\* announcement, the threshold break of the command-line loop
LoopIteration ==
    /\ loop.pc = "top"
    /\ LoopGoesOn
    /\ \E ok \in BOOLEAN :
          LET downloaded == IF ok THEN loop.downloaded + 1 ELSE loop.downloaded
              failures == IF loop.variant = "gui" THEN 0
                          ELSE IF ok THEN 0 ELSE loop.consecutive_failures + 1
              speak == ok /\ progress_due(loop.variant, downloaded)
              break == loop.variant = "cli" /\ ~ok /\ failures >= max_consecutive_failures
          IN  loop' = [loop EXCEPT !.pc = IF break THEN "done" ELSE "top",
                                   !.downloaded = downloaded,
                                   !.attempted = @ + 1,
                                   !.consecutive_failures = failures,
                                   !.last = IF ok THEN "downloaded" ELSE "failed",
                                   !.announced_now = speak,
                                   !.announced = IF speak THEN Append(@, downloaded) ELSE @,
                                   !.current_chapter = IF break THEN @ ELSE @ + 1,
                                   !.reason = IF break THEN "threshold" ELSE @]
    /\ UNCHANGED <<storeVars, guiVars, checkVars, kat, scroll>>

\* the loop condition fails: the call returns downloaded
LoopExit ==
    /\ loop.pc = "top"
    /\ ~LoopGoesOn
    /\ loop' = [loop EXCEPT !.pc = "done",
                            !.reason = IF /\ loop.variant = "scraper"
                                          /\ loop.consecutive_failures >= scraper_max_consecutive_failures
                                       THEN "threshold" ELSE "exhausted"]
    /\ UNCHANGED <<storeVars, guiVars, checkVars, kat, scroll>>

\* "if not self.scraping: break" at the top of an iteration, after a Stop
LoopStopped ==
    /\ loop.pc = "top"
    /\ loop.variant = "gui"
    /\ LoopGoesOn
    /\ loop' = [loop EXCEPT !.pc = "done", !.reason = "stopped"]
    /\ UNCHANGED <<storeVars, guiVars, checkVars, kat, scroll>>

LoopNext ==
    \/ \E variant \in LoopVariants : LoopStart(variant)
    \/ LoopIteration
    \/ LoopExit
    \/ LoopStopped

SpecLoop == LoopInit /\ [][LoopNext]_vars

(***************************************************************************)
(* The chapter check (_check_chapters_thread)                              *)
(***************************************************************************)
\* what _get_available_chapters_info returns: (None, None) when the browser or the
\* discovery fails or finds nothing, else (min, max) of the discovered chapters
AvailableInfos ==
    {<<NoneInt, NoneInt>>}
        \cup {info \in (0..CheckMaxAvailable) \X (0..CheckMaxAvailable) : info[1] <= info[2]}

next_chapter_from_one(min_available, max_available, latest_downloaded) ==
    latest_downloaded + 1

remaining_chapters(min_available, max_available, latest_downloaded) ==
    IF min_available = 0 /\ latest_downloaded = 0 THEN max_available + 1
    ELSE max_available - latest_downloaded

next_chapter(min_available, max_available, latest_downloaded) ==
    IF min_available = 0 /\ latest_downloaded = 0 THEN 0
    ELSE latest_downloaded + 1

CheckInit ==
    /\ files \in {Archive(nums) : nums \in SUBSET (0..CheckMaxLocal)}
    /\ dirExists \in (IF files = EmptyDir THEN BOOLEAN ELSE {TRUE})
    /\ dirLen = ShortDirLen
    /\ latest = NoneInt
    /\ saveRet = "none"
    /\ nsaves = 0
    /\ save_call = NoCall
    /\ scraping = FALSE
    /\ siteType \in {"novelbin", "katreadingcafe"}
    /\ nthreads = 0
    /\ workers = <<>>
    /\ DiscIdle

\* latest_downloaded = self._get_latest_chapter(output_dir)
CheckLocal ==
    /\ check.pc = "idle"
    /\ check' = [check EXCEPT !.pc = "remote",
                              !.latest_downloaded = get_latest_chapter(dirExists, DOMAIN files)]
    /\ UNCHANGED <<storeVars, guiVars, chapter_entry, kat, scroll, loopVars>>

\* what _get_available_chapters_info returns: the range of the chapters found,
\* or (None, None, None) when the page shows no chapter ("empty") and also when
\* the browser could not be set up or the discovery raised ("error")
InfosOf(cause) ==
    IF cause = "found" THEN AvailableInfos \ {<<NoneInt, NoneInt>>}
    ELSE {<<NoneInt, NoneInt>>}

\* min_available, max_available, latest_volume = self._get_available_chapters_info(...)
CheckRemote ==
    /\ check.pc = "remote"
    /\ \E cause \in {"found", "empty", "error"} : \E info \in InfosOf(cause) :
          check' = [check EXCEPT !.pc = "report",
                                 !.cause = cause,
                                 !.min_available = info[1],
                                 !.max_available = info[2]]
    /\ UNCHANGED <<storeVars, guiVars, chapter_entry, kat, scroll, loopVars>>

\* the rest of the thread: the figures, the log lines and the chapter entry
CheckReport ==
    /\ check.pc = "report"
    /\ IF check.min_available # NoneInt /\ check.max_available # NoneInt
       THEN LET r == remaining_chapters(check.min_available, check.max_available,
                                        check.latest_downloaded)
                n == next_chapter(check.min_available, check.max_available,
                                  check.latest_downloaded)
            IN  /\ check' = [check EXCEPT !.pc = "done", !.outcome = "complete",
                                          !.remaining_chapters = r, !.next_chapter = n]
                /\ chapter_entry' = IF r > 0 THEN r ELSE 0
       ELSE /\ check' = [check EXCEPT !.pc = "done", !.outcome = "failed"]
            /\ UNCHANGED chapter_entry
    /\ UNCHANGED <<storeVars, guiVars, kat, scroll, loopVars>>

CheckNext == CheckLocal \/ CheckRemote \/ CheckReport

SpecCheck == CheckInit /\ [][CheckNext]_vars

(***************************************************************************)
(* A chapter check followed by a run: Start is clicked with the number the *)
(* check has written into the chapter entry.                               *)
(***************************************************************************)
StartSuggested ==
    /\ check.pc = "done"
    /\ check.outcome = "complete"
    /\ start_scraping(1, CheckMaxAvailable + 1)
    /\ workers'[1].chapters = chapter_entry

SuggestedNext ==
    \/ CheckNext
    \/ StartSuggested
    \/ run_scraper(RunPages, {<<"ok", "ok">>})

SpecSuggested == CheckInit /\ [][SuggestedNext]_vars

(***************************************************************************)
(* Nested-volume discovery (KatReadingCafe)                                *)
(***************************************************************************)
RECURSIVE SortedSeq(_)
SortedSeq(S) == IF S = {} THEN <<>> ELSE <<SetMin(S)>> \o SortedSeq(S \ {SetMin(S)})

\* Python truthiness of an Optional[int]
Truthy(x) == x # NoneInt /\ x # 0

\* a chapter link "Vol. v Ch. c" and its href
Link(v, c) == [vol |-> v, ch |-> c]

\* the chapter links on the page: those of the expanded volumes
VisibleLinks(k) ==
    UNION {{Link(v, c) : c \in k.chaptersOf[v]} : v \in k.expanded \cap k.volumes}

\* re.match(rf'Vol\.\s*{vol_num}\s*Ch\.\s*(\d+)', txt) over the visible links
VolumeChapters(k, vol_num) == {l.ch : l \in {a \in VisibleLinks(k) : a.vol = vol_num}}

\* a mapping that keeps the locator it already has for a chapter number
UpdateChaptersKeepFirst(m, vol_num, chs) ==
    [c \in DOMAIN m \cup chs |-> IF c \in DOMAIN m THEN m[c] ELSE <<Link(vol_num, c), vol_num>>]

\* all_chapters[chapter_num] = (chapter_url, vol_num) for each chapter of the volume
UpdateChapters(m, vol_num, chs) ==
    [c \in DOMAIN m \cup chs |-> IF c \in chs THEN <<Link(vol_num, c), vol_num>> ELSE m[c]]

\* vol_element.click(): a collapsed volume expands; an expanded one may fold again
Clicked(k, vol_num, folds) ==
    [k EXCEPT !.clicked = @ \cup {vol_num},
              !.expanded = IF vol_num \in @
                           THEN (IF folds THEN @ \ {vol_num} ELSE @)
                           ELSE @ \cup {vol_num}]

\* the skip test of the check and of the command-line scraper
SkipsExpansion(k, vol_num) ==
    /\ k.variant \in {"check", "cli"}
    /\ Truthy(k.latest_volume_from_new_chapter)
    /\ vol_num = k.latest_volume_from_new_chapter

\* collect the links of the volume into the discovery's result
Collected(k, vol_num) ==
    IF k.variant = "check"
    THEN [k EXCEPT !.available_chapters = @ \cup VolumeChapters(k, vol_num)]
    ELSE [k EXCEPT !.all_chapters = UpdateChapters(@, vol_num, VolumeChapters(k, vol_num))]

\* a discovery that goes on to collect the links of a volume it could not expand
ClickFailedCollects(k, vol_num) == Collected([k EXCEPT !.failed = @ \cup {vol_num}], vol_num)

\* find_element or click() raised: "continue" (check, cli); _expand_volume returns
\* its empty dict (download)
ClickFailed(k, vol_num) == [k EXCEPT !.failed = @ \cup {vol_num}]

KatVariants == {"download", "check", "cli"}

KatChapterChoices == { {}, {0, 1}, {1, 2} }

KatPages ==
    UNION { { [IdleKat EXCEPT !.volumes = vs, !.marker = mk, !.chaptersOf = co,
                              !.expanded = IF mk = NoneInt THEN {} ELSE {mk}]
              : co \in [vs -> KatChapterChoices],
                mk \in {NoneInt} \cup (IF vs = {} THEN {} ELSE {SetMax(vs)}) }
            : vs \in SUBSET (1..KatMaxVolume) }

KatInit ==
    /\ files = EmptyDir
    /\ dirExists = TRUE
    /\ dirLen = ShortDirLen
    /\ latest = NoneInt
    /\ saveRet = "none"
    /\ nsaves = 0
    /\ save_call = NoCall
    /\ scraping = FALSE
    /\ siteType = "katreadingcafe"
    /\ nthreads = 0
    /\ workers = <<>>
    /\ check = IdleCheck
    /\ chapter_entry = NoneInt
    /\ kat \in KatPages
    /\ scroll = IdleScroll
    /\ loop = IdleLoop

\* the page is loaded; the marker is read (check, cli); the volumes are listed, sorted
KatStart(variant) ==
    /\ kat.pc = "idle"
    /\ kat' = [kat EXCEPT !.pc = "volumes",
                          !.variant = variant,
                          !.latest_volume_from_new_chapter =
                              IF variant = "download" THEN NoneInt ELSE kat.marker,
                          !.queue = SortedSeq(kat.volumes)]
    /\ UNCHANGED <<storeVars, guiVars, checkVars, scroll, loopVars>>

\* one turn of "for vol_num in all_volumes"
KatVolume ==
    /\ kat.pc = "volumes"
    /\ kat.queue # <<>>
    /\ LET vol_num == Head(kat.queue)
           rest == [kat EXCEPT !.queue = Tail(@)]
       IN  IF SkipsExpansion(kat, vol_num)
           THEN kat' = Collected(rest, vol_num)
           ELSE \E found \in BOOLEAN, folds \in BOOLEAN :
                   kat' = IF found
                          THEN Collected(Clicked(rest, vol_num, folds), vol_num)
                          ELSE ClickFailed(rest, vol_num)
    /\ UNCHANGED <<storeVars, guiVars, checkVars, scroll, loopVars>>

\* after the loop: what the discovery returns
KatFinish ==
    /\ kat.pc = "volumes"
    /\ kat.queue = <<>>
    /\ kat' = [kat EXCEPT !.pc = "done",
                          !.result =
                              IF kat.variant # "check" THEN SortedSeq(DOMAIN kat.all_chapters)
                              ELSE IF kat.available_chapters = {}
                                   THEN <<NoneInt, NoneInt, NoneInt>>
                                   ELSE <<SetMin(kat.available_chapters),
                                          SetMax(kat.available_chapters),
                                          kat.latest_volume_from_new_chapter>>]
    /\ UNCHANGED <<storeVars, guiVars, checkVars, scroll, loopVars>>

KatNext ==
    \/ \E variant \in KatVariants : KatStart(variant)
    \/ KatVolume
    \/ KatFinish

SpecKat == KatInit /\ [][KatNext]_vars

(***************************************************************************)
(* Infinite-scroll discovery (NovelBin)                                    *)
(***************************************************************************)
max_stable == 4
max_iterations == 25

\* an <a> of the chapter list by the shape of its href:
\* ".../chapter-N", ".../ch-N", or a link that is no chapter
Href(shape, n) == [shape |-> shape, n |-> n]

ChapterLinks(nums) == {Href("chapter-", n) : n \in nums}

\* the chapter number the scan of a variant reads from an href, NoneInt if none:
\* get_all_chapter_links keeps hrefs containing 'chapter' and takes the first
\* pattern that matches; _get_current_novelbin_chapters also reads '/ch-N', and so
\* do _extract_chapter_number and the patterns of the command-line search
ChapterOfHref(variant, l) ==
    IF l.shape = "chapter-" THEN l.n
    ELSE IF l.shape = "ch-" /\ variant # "improved" THEN l.n
    ELSE NoneInt

CurrentChapters(variant, links) == {ChapterOfHref(variant, l) : l \in links} \ {NoneInt}

\* the links on the page at the k-th scan; the page stops changing after the last step
Scan(sc, k) ==
    IF Len(sc.fixture) = 0 THEN {}
    ELSE IF k <= Len(sc.fixture) THEN sc.fixture[k]
    ELSE sc.fixture[Len(sc.fixture)]

ScanChapters(sc, k) == CurrentChapters(sc.variant, Scan(sc, k))

ScanReplace(found, current) == current

\* all_found_chapters.update(current_chapters)
ScanUpdate(found, current) == found \cup current

\* chapters {5,6,7}, then {8,9}, then nothing new
IncrementalFixture == <<ChapterLinks({5, 6, 7}), ChapterLinks({8, 9})>>

\* a list that shows one more chapter every fourth scan
SlowFixture == [k \in 1..(max_iterations + 2) |-> ChapterLinks(0..(k \div max_stable))]

\* a list that shows one more chapter at every scan
GrowingFixture == [k \in 1..(max_iterations + 3) |-> ChapterLinks(1..k)]

MixedFixture ==
    << {Href("chapter-", 1), Href("author", NoneInt)},
       {Href("chapter-", 1), Href("ch-", 2), Href("author", NoneInt)} >>

RECURSIVE SeqsUpTo(_, _)
SeqsUpTo(S, n) ==
    IF n = 0 THEN {<<>>}
    ELSE LET shorter == SeqsUpTo(S, n - 1)
         IN  shorter \cup {Append(q, x) : q \in shorter, x \in S}

ScrollFixtures ==
    SeqsUpTo({ChapterLinks(nums) : nums \in SUBSET (0..ScrollMaxChapter)}, ScrollMaxSteps)
        \cup {IncrementalFixture, SlowFixture, GrowingFixture, MixedFixture}

ScrollVariants == {"improved", "discover"}

ScrollInit ==
    /\ files = EmptyDir
    /\ dirExists = TRUE
    /\ dirLen = ShortDirLen
    /\ latest = NoneInt
    /\ saveRet = "none"
    /\ nsaves = 0
    /\ save_call = NoCall
    /\ scraping = FALSE
    /\ siteType = "novelbin"
    /\ nthreads = 0
    /\ workers = <<>>
    /\ check = IdleCheck
    /\ chapter_entry = NoneInt
    /\ kat = IdleKat
    /\ scroll \in {[IdleScroll EXCEPT !.fixture = f] : f \in ScrollFixtures}
    /\ loop = IdleLoop

\* what the discovery returns once the loop is over
ScrollResult(variant, found) ==
    IF variant = "discover" THEN found
    ELSE IF found = {} THEN <<NoneInt, NoneInt, NoneInt>>
    ELSE <<SetMin(found), SetMax(found), NoneInt>>

ScrollDone(sc, found, scans, reason) ==
    [sc EXCEPT !.pc = "done", !.found = found, !.scans = scans, !.reason = reason,
               !.result = ScrollResult(sc.variant, found)]

\* len(early_chapter_patterns)
EarlyPatternCount == 8

\* scroll to the top; _get_novelbin_chapters_improved scans once before the loop
EnterLoop(sc) ==
    [sc EXCEPT !.pc = "loop", !.scans = 1, !.found = ScanUpdate({}, ScanChapters(sc, 1))]

\* the exception leaves _get_novelbin_chapters_improved; _get_available_chapters_info
\* catches it and returns (None, None, None)
Aborted(sc) ==
    [sc EXCEPT !.pc = "aborted", !.reason = "aborted",
               !.result = <<NoneInt, NoneInt, NoneInt>>]

\* _get_novelbin_chapters_improved first visits the early chapters; the search
\* of _discover_novelbin_chapters starts with its loop
ScrollStart(variant) ==
    /\ scroll.pc = "idle"
    /\ LET sc == [scroll EXCEPT !.variant = variant]
       IN  scroll' = IF variant = "improved"
                     THEN [sc EXCEPT !.pc = "prime"]
                     ELSE [sc EXCEPT !.pc = "loop"]
    /\ UNCHANGED <<storeVars, guiVars, checkVars, kat, loopVars>>

\* one turn of "for pattern in early_chapter_patterns": driver.get(pattern) raises,
\* or answers with an invalid or a valid page; after a valid page the return to
\* the chapter list either works (break) or raises inside the same try (continue)
PrimePattern ==
    /\ scroll.pc = "prime"
    /\ scroll.pattern < EarlyPatternCount
    /\ \E answer \in {"raises", "invalid", "valid"} : \E back \in {"ok", "raises"} :
          LET sc == [scroll EXCEPT !.pattern = @ + 1]
          IN  scroll' =
                  IF answer # "valid" THEN sc
                  ELSE IF back = "ok"
                  THEN EnterLoop([sc EXCEPT !.chapter_0_or_1_found = TRUE,
                                            !.returned = "ok"])
                  ELSE [sc EXCEPT !.chapter_0_or_1_found = TRUE, !.returned = "raised"]
    /\ UNCHANGED <<storeVars, guiVars, checkVars, kat, loopVars>>

\* the patterns are exhausted: "if not chapter_0_or_1_found" goes back to the
\* chapter list inside the try; the handler of the outer try goes back once more
PrimeEnd ==
    /\ scroll.pc = "prime"
    /\ scroll.pattern = EarlyPatternCount
    /\ \E back \in {"ok", "raises"} : \E again \in {"ok", "raises"} :
          scroll' =
              IF scroll.chapter_0_or_1_found THEN EnterLoop(scroll)
              ELSE IF back = "ok" \/ again = "ok"
              THEN EnterLoop([scroll EXCEPT !.returned = "ok"])
              ELSE Aborted([scroll EXCEPT !.returned = "raised"])
    /\ UNCHANGED <<storeVars, guiVars, checkVars, kat, loopVars>>

\* one turn of "for scroll_iteration in range(25)"
ScrollIteration ==
    /\ scroll.pc = "loop"
    /\ scroll.variant \in ScrollVariants
    /\ scroll.iteration < max_iterations
    /\ LET current_chapters == ScanChapters(scroll, scroll.scans + 1)
           new_chapters == current_chapters \ scroll.found
           found == ScanUpdate(scroll.found, current_chapters)
           stable == IF new_chapters # {} THEN 0 ELSE scroll.stable_iterations + 1
           sc == [scroll EXCEPT !.stable_iterations = stable]
       IN  IF stable >= max_stable
           THEN scroll' = ScrollDone(sc, found, scroll.scans + 1, "stable")
           ELSE \E bottom \in BOOLEAN :
                   scroll' =
                       IF ~bottom
                       THEN [sc EXCEPT !.found = found, !.scans = @ + 1,
                                       !.iteration = @ + 1]
                       ELSE IF scroll.variant = "improved"
                       THEN ScrollDone(sc, ScanUpdate(found, ScanChapters(scroll, scroll.scans + 2)),
                                       scroll.scans + 2, "bottom")
                       ELSE ScrollDone(sc, found, scroll.scans + 1, "bottom")
    /\ UNCHANGED <<storeVars, guiVars, checkVars, kat, loopVars>>

\* range(25) is exhausted
ScrollExhausted ==
    /\ scroll.pc = "loop"
    /\ scroll.variant \in ScrollVariants
    /\ scroll.iteration = max_iterations
    /\ scroll' = ScrollDone(scroll, scroll.found, scroll.scans, "cap")
    /\ UNCHANGED <<storeVars, guiVars, checkVars, kat, loopVars>>

ScrollNext ==
    \/ \E variant \in ScrollVariants : ScrollStart(variant)
    \/ PrimePattern
    \/ PrimeEnd
    \/ ScrollIteration
    \/ ScrollExhausted

SpecScroll == ScrollInit /\ [][ScrollNext]_vars

(***************************************************************************)
(* Resolving one chapter of an infinite-scroll list:                       *)
(* NovelBinScraper._find_chapter_url ("find") and the search of            *)
(* scrape_novelbin_single_with_fresh_browser ("cli").  Their loops watch   *)
(* the number of links, not the set of chapters.                           *)
(***************************************************************************)
FindMaxTarget == 1

cli_max_iterations == 20
cli_max_stable == 3

FindVariants == {"find", "cli"}

MaxIterationsLoose(variant) == max_iterations + 1

\* range(25) and max_stable = 4; max_iterations = 20 and "stable_count >= 3"
MaxIterations(variant) == IF variant = "cli" THEN cli_max_iterations ELSE max_iterations

MaxStable(variant) == IF variant = "cli" THEN cli_max_stable ELSE max_stable

NoUrl == Href("none", NoneInt)

\* the links whose chapter number is the target; the scrolling search and the
\* command-line search test "if chapter_num:" first, _find_in_visible_links does not
Matches(variant, links, target, guarded) ==
    {l \in links : LET chapter_num == ChapterOfHref(variant, l)
                   IN  chapter_num = target /\ (guarded => Truthy(chapter_num))}

\* the end of a search.  _find_with_scrolling returns None; the command line scans
\* once more after scrolling to the bottom, reads the chapter numbers, and constructs
\* a URL from a sample link when the target is not among them
FindEnd(sc, reason) ==
    IF sc.variant = "find"
    THEN {[sc EXCEPT !.pc = "done", !.reason = reason, !.result = NoUrl]}
    ELSE LET links == Scan(sc, sc.scans + 1)
             found_chapters == {n \in CurrentChapters("cli", links) : Truthy(n)}
             hit == Matches("cli", links, sc.target, TRUE)
             done == [sc EXCEPT !.pc = "done", !.reason = reason, !.scans = @ + 1,
                                !.found = found_chapters]
         IN  IF hit # {} THEN {[done EXCEPT !.result = l] : l \in hit}
             ELSE IF found_chapters # {} /\ (\E l \in links : l.shape = "chapter-")
             THEN {[done EXCEPT !.result = Href("constructed", sc.target)]}
             ELSE {[done EXCEPT !.result = NoUrl]}

\* _find_chapter_url up to the loop: _find_in_visible_links, then scroll to the top;
\* the command line only scrolls to the top
FindStart(variant) ==
    /\ scroll.pc = "idle"
    /\ \E t \in 0..FindMaxTarget :
          LET sc == [scroll EXCEPT !.variant = variant, !.target = t]
              visible == Matches("find", Scan(sc, 1), t, FALSE)
          IN  IF variant = "cli" THEN scroll' = [sc EXCEPT !.pc = "loop"]
              ELSE IF visible = {} THEN scroll' = [sc EXCEPT !.pc = "loop", !.scans = 1]
              ELSE \E l \in visible :
                      scroll' = [sc EXCEPT !.pc = "done", !.scans = 1,
                                           !.reason = "visible", !.result = l]
    /\ UNCHANGED <<storeVars, guiVars, checkVars, kat, loopVars>>

\* one turn of "for iteration in range(...)": scroll, read the links, (find) look
\* for the target, stability of the link count, bottom of the page
FindIteration ==
    /\ scroll.pc = "loop"
    /\ scroll.variant \in FindVariants
    /\ scroll.iteration < MaxIterations(scroll.variant)
    /\ LET links == Scan(scroll, scroll.scans + 1)
           current_count == Cardinality(links)
           seen == IF scroll.variant = "find"
                   THEN {n \in CurrentChapters("find", links) : Truthy(n)} ELSE {}
           hit == IF scroll.variant = "find"
                  THEN Matches("find", links, scroll.target, TRUE) ELSE {}
           stable == IF current_count = scroll.last_count
                     THEN scroll.stable_iterations + 1 ELSE 0
           read == [scroll EXCEPT !.scans = @ + 1, !.found = @ \cup seen]
           sc == [read EXCEPT !.stable_iterations = stable, !.last_count = current_count]
       IN  IF hit # {}
           THEN \E l \in hit :
                   scroll' = [read EXCEPT !.pc = "done", !.reason = "found", !.result = l]
           ELSE IF stable >= MaxStable(scroll.variant)
           THEN scroll' \in FindEnd(sc, "stable")
           ELSE \E bottom \in BOOLEAN :
                   IF bottom THEN scroll' \in FindEnd(sc, "bottom")
                   ELSE scroll' = [sc EXCEPT !.iteration = @ + 1]
    /\ UNCHANGED <<storeVars, guiVars, checkVars, kat, loopVars>>

\* the range of the loop is exhausted
FindExhausted ==
    /\ scroll.pc = "loop"
    /\ scroll.variant \in FindVariants
    /\ scroll.iteration >= MaxIterations(scroll.variant)
    /\ scroll' \in FindEnd(scroll, "cap")
    /\ UNCHANGED <<storeVars, guiVars, checkVars, kat, loopVars>>

FindNext ==
    \/ \E variant \in FindVariants : FindStart(variant)
    \/ FindIteration
    \/ FindExhausted

\* every scroll loop of the two programs; the thread that runs a loop goes on
\* running it (each scroll, sleep and script call returns)
ScrollLoopsNext == ScrollNext \/ FindNext

SpecScrollLoops == ScrollInit /\ [][ScrollLoopsNext]_vars /\ WF_vars(ScrollLoopsNext)

(***************************************************************************)
(* What a thread's log says                                                *)
(***************************************************************************)
\* the chapter numbers of the "Attempting to download chapter i" lines, in order
RECURSIVE Attempted(_)
Attempted(log) ==
    IF Len(log) = 0 THEN <<>>
    ELSE IF log[1].ev = "attempting" THEN <<log[1].ch>> \o Attempted(Tail(log))
    ELSE Attempted(Tail(log))

\* the number of "Failed to download" lines since the last "Successfully downloaded"
RECURSIVE TrailingFailures(_)
TrailingFailures(log) ==
    IF Len(log) = 0 THEN 0
    ELSE IF log[Len(log)].ev = "failed"
         THEN 1 + TrailingFailures(SubSeq(log, 1, Len(log) - 1))
    ELSE IF log[Len(log)].ev = "downloaded" THEN 0
    ELSE TrailingFailures(SubSeq(log, 1, Len(log) - 1))

\* the numeric prefixes of the archive's file names
MatchingPrefixes == {MatchPrefix(f) : f \in DOMAIN files} \ {NoneInt}

StopLogged(log) == \E k \in 1..Len(log) : log[k].ev = "stopping"

(***************************************************************************)
(* C1: in a download run, as soon as the number of consecutive failed      *)
(* chapters reaches the threshold the run stops: no further chapter is     *)
(* attempted after that many failures in a row.                            *)
(***************************************************************************)
C1_StopsAtFailureThreshold ==
    \A w \in DOMAIN workers :
        workers[w].pc = "fetch" =>
            TrailingFailures(SubSeq(workers[w].log, 1, Len(workers[w].log) - 1))
                < max_consecutive_failures

(***************************************************************************)
(* C2: once Stop was requested during a run, the thread of that run begins *)
(* no further chapter download, and no file of the archive is removed.     *)
(***************************************************************************)
C2_NoFetchAfterStop ==
    [][ /\ \A w \in DOMAIN workers :
              (StopLogged(workers[w].log) /\ workers'[w].pc = "fetch")
                  => workers[w].pc = "fetch"
        /\ \A f \in DOMAIN files : f \in DOMAIN files' ]_vars

(***************************************************************************)
(* C3: chapter downloads are strictly sequential: at most one thread is    *)
(* downloading a chapter at any time.                                      *)
(***************************************************************************)
C3_OneFetchAtATime ==
    Cardinality({w \in DOMAIN workers : workers[w].pc = "fetch"}) <= 1

(***************************************************************************)
(* C6: a run computes start = latestDownloaded + 1 and                     *)
(* end = start + requestedCount - 1, and the chapter numbers it attempts   *)
(* all lie within start..end and are attempted in strictly increasing      *)
(* order.                                                                  *)
(***************************************************************************)
InLoop(w) == workers[w].pc \in {"loop", "fetch", "summary"}

C6_RunRange ==
    \A w \in DOMAIN workers :
        InLoop(w) =>
            LET r == workers[w]
                a == Attempted(r.log)
            IN  /\ r.start_chapter = r.latest_downloaded + 1
                /\ r.end_chapter = r.start_chapter + r.chapters - 1
                /\ (a = <<>> /\ r.pc = "loop") =>
                       r.latest_downloaded =
                           IF MatchingPrefixes = {} THEN 0 ELSE SetMax(MatchingPrefixes)
                /\ \A k \in 1..Len(a) : r.start_chapter <= a[k] /\ a[k] <= r.end_chapter
                /\ \A k \in 1..(Len(a) - 1) : a[k] < a[k + 1]

C6_Witness ==
    \E w \in DOMAIN workers :
        /\ workers[w].pc = "fetch"
        /\ workers[w].latest_downloaded = 3
        /\ Attempted(workers[w].log) = <<4, 5, 6>>

(***************************************************************************)
(* C7: when the remote minimum chapter is 0 and the local archive is       *)
(* empty, the chapter check computes remainingChapters = maxAvailable + 1  *)
(* and nextChapter = 0.                                                    *)
(***************************************************************************)
C7_ChapterZeroStart ==
    (/\ check.pc = "done"
     /\ check.outcome = "complete"
     /\ check.min_available = 0
     /\ DOMAIN files = {})
        => /\ check.remaining_chapters = check.max_available + 1
           /\ check.next_chapter = 0

C7_Witness ==
    /\ check.pc = "done"
    /\ DOMAIN files = {}
    /\ check.min_available = 0
    /\ check.max_available = 3
    /\ check.remaining_chapters = 4
    /\ check.next_chapter = 0
    /\ chapter_entry = 4

(***************************************************************************)
(* C8: a chapter whose every selector probe and fallback yields a body     *)
(* under 100 characters is not persisted: no body shorter than the         *)
(* threshold is ever saved by a chapter download.                          *)
(***************************************************************************)
C8_NoShortBodySaved ==
    siteType = "novelbin" =>
        \A f \in DOMAIN files : files[f].complete => files[f].body >= min_content_length

(***************************************************************************)
(* C4: for every series directory, the value returned by                   *)
(* get_latest_chapter is the maximum numeric prefix among the file names   *)
(* matching ^(\d+)_, and 0 when the directory is empty or does not exist.  *)
(***************************************************************************)
C4_LatestIsMaxPrefix ==
    latest # NoneInt =>
        IF ~dirExists \/ MatchingPrefixes = {}
        THEN latest = 0
        ELSE /\ latest \in MatchingPrefixes
             /\ \A n \in MatchingPrefixes : n <= latest

C4_Witness ==
    /\ latest = 1
    /\ {0, 1} \subseteq MatchingPrefixes
    /\ nsaves = 2

(***************************************************************************)
(* C5: after any sequence of saves into a series directory there is        *)
(* exactly one archived file per chapter number (at most one file carries  *)
(* a given numeric prefix), also when a chapter is saved again under a     *)
(* different title.                                                        *)
(***************************************************************************)
FilesOfChapter(n) == {f \in DOMAIN files : MatchPrefix(f) = n}

C5_OneFilePerChapter ==
    (\A f \in DOMAIN files : files[f].complete) =>
        \A n \in StoreChapters : Cardinality(FilesOfChapter(n)) <= 1

(***************************************************************************)
(* C9: in every nested-volume discovery or download, the volume named by   *)
(* the 'New Chapter' marker is never clicked to expand, and its chapters   *)
(* are still collected and mapped to that volume.                          *)
(***************************************************************************)
C9_LatestVolumeNotClicked ==
    kat.marker # NoneInt =>
        /\ kat.marker \notin kat.clicked
        /\ (kat.pc = "done" /\ kat.variant = "check") =>
               kat.chaptersOf[kat.marker] \subseteq kat.available_chapters
        /\ (kat.pc = "done" /\ kat.variant # "check") =>
               \A c \in kat.chaptersOf[kat.marker] :
                   /\ c \in DOMAIN kat.all_chapters
                   /\ kat.all_chapters[c] = <<Link(kat.marker, c), kat.marker>>

(***************************************************************************)
(* C10: infinite-scroll discovery returns exactly the union of the chapter *)
(* numbers seen in any scan, and stops by stability once max_stable        *)
(* consecutive scans add no new chapter: chapters {5,6,7}, then {8,9},     *)
(* then nothing new for 4 iterations gives {5,6,7,8,9}.                    *)
(***************************************************************************)
SeenInScans(sc, n) == UNION {ScanChapters(sc, k) : k \in 1..n}

C10_ScrollUnionAndStability ==
    /\ scroll.pc # "idle" => scroll.found = SeenInScans(scroll, scroll.scans)
    /\ scroll.pc = "loop" => scroll.stable_iterations < max_stable
    /\ scroll.pc = "done" =>
           scroll.result = IF scroll.variant = "discover"
                           THEN SeenInScans(scroll, scroll.scans)
                           ELSE IF SeenInScans(scroll, scroll.scans) = {}
                                THEN <<NoneInt, NoneInt, NoneInt>>
                                ELSE <<SetMin(SeenInScans(scroll, scroll.scans)),
                                       SetMax(SeenInScans(scroll, scroll.scans)), NoneInt>>
    /\ (scroll.pc = "done" /\ scroll.reason = "stable") =>
           /\ scroll.scans >= max_stable
           /\ \A k \in (scroll.scans - max_stable + 1)..scroll.scans :
                  ScanChapters(scroll, k) \subseteq SeenInScans(scroll, scroll.scans - max_stable)
    /\ (scroll.pc = "done" /\ scroll.reason = "stable" /\ scroll.fixture = IncrementalFixture) =>
           scroll.found = 5..9

C10_Witness ==
    /\ scroll.pc = "done"
    /\ scroll.fixture = IncrementalFixture
    /\ scroll.reason = "stable"
    /\ scroll.variant = "discover"
    /\ scroll.scans = 6
    /\ scroll.result = 5..9

(***************************************************************************)
(* C13: a save returns False only if the write under the primary name and  *)
(* the one retry under NNN_Chapter_N.txt both failed; when the primary     *)
(* write failed with a filesystem error and the retry succeeded, the save  *)
(* returned True and the chapter is in the directory under the fallback    *)
(* name.                                                                   *)
(***************************************************************************)
PrimaryFailed == save_call.variant # "none" /\ ~Written(dirExists, save_call.o1)

RetryFailed == save_call.variant # "none" /\ ~Written(dirExists, save_call.o2)

RunOutcomes == {"completed", "stopped", "error"}

\* the positions a run_scraper thread can move to from position pc
PcSuccessors(pc) ==
    CASE pc = "setup" -> {"loop", "finally"}
      [] pc = "loop" -> {"fetch", "summary"}
      [] pc = "fetch" -> {"loop"}
      [] pc = "summary" -> {"finally"}
      [] pc = "finally" -> {"done"}
      [] OTHER -> {}

C12_SessionsPerRun ==
    \A w \in DOMAIN workers :
        /\ workers[w].opened <= Len(Attempted(workers[w].log))
        /\ siteType = "katreadingcafe" => workers[w].opened <= 1

(***************************************************************************)
(* C14: when create_driver() returns no driver for a chapter, the run      *)
(* ends there: no chapter after that one is attempted.                     *)
(***************************************************************************)
C14_NoDriverIsFatal ==
    \A w \in DOMAIN workers :
        workers[w].no_driver_at # NoneInt =>
            \A k \in 1..Len(workers[w].log) :
                workers[w].log[k].ev = "attempting" =>
                    workers[w].log[k].ch <= workers[w].no_driver_at

(***************************************************************************)
(* C17: the page session of a chapter download is closed before the        *)
(* download returns, whether the chapter was saved, skipped or raised: a   *)
(* run has at most one session open, only while a chapter is being         *)
(* fetched, and none at the top of the chapter loop or after it.           *)
(***************************************************************************)
C17_SessionsClosed ==
    \A w \in DOMAIN workers :
        /\ workers[w].open <= 1
        /\ workers[w].open = 1 => workers[w].pc = "fetch" /\ workers[w].driver
        /\ workers[w].pc # "fetch" => workers[w].open = 0

\* back at the top of the loop after a saved chapter and a failed one, each with
\* a session of its own
C17_Witness ==
    \E w \in DOMAIN workers :
        /\ workers[w].pc = "loop"
        /\ workers[w].opened >= 2
        /\ workers[w].no_driver_at = NoneInt
        /\ \E k \in 1..Len(workers[w].log) : workers[w].log[k].ev = "downloaded"
        /\ \E k \in 1..Len(workers[w].log) : workers[w].log[k].ev = "failed"


IterationCap == IF scroll.variant = "cli" THEN cli_max_iterations ELSE max_iterations

StableCap == IF scroll.variant = "cli" THEN cli_max_stable ELSE max_stable

C16_ScrollLoopTerminates ==
    /\ [](scroll.pc = "loop" => scroll.iteration <= IterationCap)
    /\ [](scroll.pc = "done" =>
            /\ scroll.iteration <= IterationCap
            /\ scroll.reason \in {"stable", "bottom", "cap", "found", "visible"}
            /\ scroll.reason = "stable" => scroll.stable_iterations = StableCap
            /\ scroll.reason = "cap" => scroll.iteration = IterationCap
            /\ scroll.reason \in {"found", "visible"} => scroll.variant = "find")
    /\ [](scroll.pc = "loop" => scroll.stable_iterations < StableCap)
    /\ (scroll.pc = "loop") ~> (scroll.pc = "done")

\* a list that grows at every scan: the command-line loop is cut at its cap
C16_Witness ==
    /\ scroll.pc = "done"
    /\ scroll.variant = "cli"
    /\ scroll.reason = "cap"
    /\ scroll.iteration = cli_max_iterations
    /\ scroll.fixture = GrowingFixture


(***************************************************************************)
(* C18: when the search for chapter 0 on an infinite-scroll list has read  *)
(* a scan that holds a link with chapter number 0, at the first look or    *)
(* only after scrolling, it returns the URL of such a link, and the set of *)
(* found chapters built while scrolling contains 0.                        *)
(***************************************************************************)
\* the scans in which the search looks for its target
SearchedScans == IF scroll.variant = "cli" THEN {scroll.scans} ELSE 1..scroll.scans

C18_ChapterZeroResolved ==
    ( /\ scroll.pc = "done"
      /\ scroll.variant \in FindVariants
      /\ scroll.target = 0
      /\ \E k \in SearchedScans :
            \E l \in Scan(scroll, k) : ChapterOfHref(scroll.variant, l) = 0 )
    => /\ ChapterOfHref(scroll.variant, scroll.result) = 0
       /\ scroll.reason # "visible" => 0 \in scroll.found


(***************************************************************************)
(* C19: a chapter that fails (its link is not found, the page title is     *)
(* invalid, the extraction raises or finds nothing, the save fails) does   *)
(* not end the run: the failure is logged, the run has no error outcome,   *)
(* and the next chapter number is attempted next, as long as chapters      *)
(* remain (no Stop is clicked in these runs, and run_scraper has no        *)
(* failure threshold).                                                     *)
(***************************************************************************)
C19_FailureIsSkipped ==
    \A w \in DOMAIN workers :
        \A k \in 1..Len(workers[w].log) :
            workers[w].log[k].ev = "failed" =>
                LET ch == workers[w].log[k].ch
                IN  /\ workers[w].outcome \in {"none", "completed"}
                    /\ k < Len(workers[w].log) =>
                            workers[w].log[k + 1] = LogEntry("attempting", ch + 1)
                    /\ k = Len(workers[w].log) =>
                            /\ workers[w].i = ch + 1
                            /\ workers[w].pc = "loop" \/ workers[w].i > workers[w].end_chapter

\* a chapter failed although its session started, the next one was downloaded
C19_Witness ==
    \E w \in DOMAIN workers :
        /\ workers[w].no_driver_at = NoneInt
        /\ \E k \in 1..(Len(workers[w].log) - 2) :
              /\ workers[w].log[k].ev = "failed"
              /\ workers[w].log[k + 1] = LogEntry("attempting", workers[w].log[k].ch + 1)
              /\ workers[w].log[k + 2] = LogEntry("downloaded", workers[w].log[k].ch + 1)


(***************************************************************************)
(* C20: in a nested-volume discovery a volume whose expansion failed       *)
(* contributes no chapter to the result, and the chapters shown under      *)
(* every other volume are in the result all the same.                      *)
(***************************************************************************)
\* the volumes whose expansion did not fail and whose links are on the page
ShownVolumes == (kat.volumes \ kat.failed) \cap kat.expanded

VolumesShowing(c) == {v \in ShownVolumes : c \in kat.chaptersOf[v]}

C21_LastScannedWins ==
    (kat.pc = "done" /\ kat.variant # "check") =>
        \A c \in DOMAIN kat.all_chapters :
            LET last == SetMax(VolumesShowing(c))
            IN  kat.all_chapters[c] = <<Link(last, c), last>>

\* chapter 1 is shown under volume 1 and under volume 2
C21_Witness ==
    /\ kat.pc = "done"
    /\ kat.variant # "check"
    /\ VolumesShowing(1) = {1, 2}
    /\ kat.all_chapters[1] = <<Link(2, 1), 2>>


(***************************************************************************)
(* C22: a discovery over a series page that shows no volume or no chapter  *)
(* link returns an empty result and is not reported as an error: the       *)
(* chapter check that ran it does not end as a failed check.               *)
(***************************************************************************)
C22_EmptyIsNotAnError ==
    (check.pc = "done" /\ check.cause = "empty") => check.outcome # "failed"


(***************************************************************************)
(* C23: in the scrolling discovery of the chapter check, a failure of the  *)
(* visits to chapter 0 and chapter 1 (a visited address raising or         *)
(* answering with an invalid page, or the return to the chapter list       *)
(* raising) never aborts the discovery: the scroll loop is entered and the *)
(* discovery returns what the loop found.                                  *)
(***************************************************************************)
C23_PrimingNeverAborts ==
    scroll.variant = "improved" =>
        /\ scroll.pc # "aborted"
        /\ scroll.pc = "done" =>
              /\ scroll.scans >= 1
              /\ scroll.result = ScrollResult("improved", scroll.found)


(***************************************************************************)
(* C24: the summary of a run reflects how that run ended: "stopped by      *)
(* user" is reported only when Stop was clicked during that run, and       *)
(* "completed" only when the chapter loop of that run went through its     *)
(* whole range start_chapter..end_chapter.                                 *)
(***************************************************************************)
C24_SummaryReflectsRun ==
    \A w \in Threads :
        workers[w].pc = "finally" =>
            /\ workers[w].outcome = "stopped" => StopLogged(workers[w].log)
            /\ workers[w].outcome = "completed" => workers[w].i > workers[w].end_chapter


(***************************************************************************)
(* C25: throughout a NovelBin download loop (scrape_novelbin_multiple and  *)
(* NovelBinScraper.scrape_chapters), 0 <= consecutive_failures <=          *)
(* threshold, consecutive_failures is 0 right after every downloaded       *)
(* chapter, a chapter is attempted only while consecutive_failures is      *)
(* below the threshold, and downloaded <= chapters attempted <= chapters   *)
(* requested.                                                              *)
(***************************************************************************)
FailureThreshold(variant) ==
    IF variant = "cli" THEN max_consecutive_failures ELSE scraper_max_consecutive_failures

NovelBinLoop == loop.variant \in {"cli", "scraper"}

C25_LoopCounters ==
    /\ [](NovelBinLoop =>
            /\ 0 <= loop.consecutive_failures
            /\ loop.consecutive_failures <= FailureThreshold(loop.variant)
            /\ loop.last = "downloaded" => loop.consecutive_failures = 0
            /\ loop.downloaded <= loop.attempted
            /\ loop.attempted <= loop.chapters_per_run)
    /\ [][(NovelBinLoop /\ loop'.attempted > loop.attempted) =>
             loop.consecutive_failures < FailureThreshold(loop.variant)]_vars

\* the loop of the application stops at three failures after a download
C25_Witness ==
    /\ loop.variant = "scraper"
    /\ loop.pc = "done"
    /\ loop.reason = "threshold"
    /\ loop.consecutive_failures = scraper_max_consecutive_failures
    /\ loop.downloaded >= 1
    /\ loop.attempted < loop.chapters_per_run


(***************************************************************************)
(* C26: a run attempts only chapter numbers greater than the latest        *)
(* downloaded chapter it read at its start, each at most once; so, over    *)
(* runs made one after the other, a chapter that is missing below an       *)
(* archived chapter is never attempted again and stays missing.            *)
(***************************************************************************)
\* the chapter numbers missing below the highest archived chapter
Gaps ==
    LET nums == ChapterNums(DOMAIN files)
    IN  IF nums = {} THEN {} ELSE {c \in 0..SetMax(nums) : c \notin nums}

AttemptsAboveLatest(w) ==
    LET a == Attempted(workers[w].log)
    IN  \A k \in 1..Len(a) :
            /\ a[k] > workers[w].latest_downloaded
            /\ k > 1 => a[k] > a[k - 1]

C26_GapsAreNeverRetried ==
    /\ [](\A w \in Threads :
            workers[w].pc \notin {"setup", "done"} => AttemptsAboveLatest(w))
    /\ [][/\ Gaps \cap ChapterNums(DOMAIN files') = {}
          /\ \A w \in DOMAIN workers :
                LET a == Attempted(workers'[w].log)
                IN  Len(a) > Len(Attempted(workers[w].log)) => a[Len(a)] \notin Gaps]_vars

\* the first run failed on chapter 1 and saved chapter 2; the second run is at chapter 3
C26_Witness ==
    /\ nthreads = 2
    /\ ChapterNums(DOMAIN files) = {2}
    /\ Gaps = {0, 1}
    /\ workers[2].pc = "fetch"
    /\ workers[2].latest_downloaded = 2
    /\ Attempted(workers[2].log) = <<3>>


(***************************************************************************)
(* C27: a run started with the chapter count suggested by the chapter      *)
(* check attempts exactly the chapters from the next chapter the check     *)
(* reported through the highest available chapter: it starts at chapter 0  *)
(* when the check reported 0, and attempts no chapter above the highest.   *)
(***************************************************************************)
C27_SuggestedRunRange ==
    \A w \in Threads :
        (workers[w].pc = "finally" /\ workers[w].outcome = "completed") =>
            LET a == Attempted(workers[w].log)
            IN  /\ {a[k] : k \in 1..Len(a)} = check.next_chapter..check.max_available
                /\ Len(a) = check.max_available - check.next_chapter + 1


(***************************************************************************)
(* C28: when every page operation and every sleep returns, every run that  *)
(* Start has started eventually reaches the end of run_scraper, and it     *)
(* leaves run_scraper with the scraping flag false, however Start and Stop *)
(* clicks are interleaved with it.                                         *)
(***************************************************************************)
C28_EveryRunEnds ==
    /\ \A w \in 1..LifeMaxRuns :
          (w \in DOMAIN workers) ~> (w \in DOMAIN workers /\ workers[w].pc = "done")
    /\ [][\A w \in DOMAIN workers :
            (workers[w].pc # "done" /\ workers'[w].pc = "done") => ~scraping']_vars

\* two runs have ended, the first one after a Stop and after attempting a chapter
C28_Witness ==
    /\ Len(workers) = 2
    /\ workers[1].pc = "done"
    /\ workers[2].pc = "done"
    /\ ~scraping
    /\ DOMAIN files # {}


(***************************************************************************)
(* C29: a chapter download that reports failure before saving (no browser  *)
(* session, chapter not located, invalid title, insufficient content, an   *)
(* exception) leaves the series archive as it was, and a successful        *)
(* download changes only files of its own chapter number.                  *)
(***************************************************************************)
\* the names whose presence or text differs between two directories
ChangedFiles(fs, gs) ==
    {f \in DOMAIN fs \cup DOMAIN gs :
        f \notin DOMAIN fs \/ f \notin DOMAIN gs \/ fs[f] # gs[f]}

\* the download of a chapter fails before the save
BeforeSaving(type, drv, nav, page) ==
    \/ ~drv
    \/ nav # "found"
    \/ LET c == IF type = "katreadingcafe" THEN Kat_get_chapter_content(page)
                ELSE NovelBin_get_chapter_content(page)
       IN  ~c.ok \/ c.body = 0

C29_FailureLeavesArchive ==
    /\ [](\A w \in Threads :
            workers[w].pc = "fetch" =>
                \A nav \in NavOutcomes, page \in RunPages, o \in WriteOutcomes \X WriteOutcomes :
                    LET r == RunDownload(files, dirExists, siteType, workers[w].driver, nav,
                                         page, workers[w].i, o[1], o[2])
                    IN  /\ BeforeSaving(siteType, workers[w].driver, nav, page) =>
                              (~r.ok /\ r.files = files)
                        /\ r.ok => \A f \in ChangedFiles(files, r.files) :
                                       MatchPrefix(f) = workers[w].i)
    /\ [][\A w \in DOMAIN workers :
            (workers[w].pc = "fetch" /\ workers'[w].pc # "fetch") =>
                LET entry == workers'[w].log[Len(workers'[w].log)]
                IN  /\ entry.ev = "failed" => files' = files
                    /\ entry.ev = "downloaded" =>
                          /\ ChangedFiles(files, files') # {}
                          /\ \A f \in ChangedFiles(files, files') :
                                MatchPrefix(f) = workers[w].i]_vars

\* chapter 4 could not be located; chapters 1 and 3 are in the archive as before
C29_Witness ==
    /\ Len(workers) = 1
    /\ workers[1].pc = "loop"
    /\ workers[1].driver = FALSE
    /\ workers[1].opened = 1
    /\ workers[1].log = <<LogEntry("attempting", 4), LogEntry("failed", 4)>>
    /\ files = Archive({1, 3})


=============================================================================
